---- MODULE Spec2Model ----
(* Client-side job-state synchronisation of the video-essay-maker dashboard:  *)
(* the App component (selection, detail fetches, poller, action handlers) and *)
(* the JobDetails component (audio / video object-URL effects), run against a *)
(* remote pipeline API whose job records change on their own.                 *)
EXTENDS Bags, FiniteSets, Integers, Naturals, Sequences, TLC

\* ------------------------------------------------------------------ bounds
NumJobs == 2        \* job ids are 1..NumJobs
MaxInflight == 2    \* API requests in flight at once (bag + running handlers)
MaxStale == 1       \* artifact fetches of cleaned-up effects in flight, per type
MaxUrls == 2        \* object URLs ever created
MaxEvents == 2      \* events of the environment: user actions, ticks, server changes, unmount

Jobs == 1..NumJobs
NoJob == 0
Types == {"audio", "video"}
NoUrl == 0

\* ------------------------------------------------------- job snapshots
OverallStatuses == {"queued", "processing", "rerendering", "completed", "failed"}
StageStatuses == OverallStatuses \cup {"not_requested"}

Mk(s, sc, a, v) ==
  [status |-> s, script_status |-> sc, audio_status |-> a, video_status |-> v]

AllSnaps ==
  [status : OverallStatuses, script_status : StageStatuses,
   audio_status : StageStatuses, video_status : StageStatuses]

\* A job id the server has no record of.
AbsentSnap == Mk("absent", "absent", "absent", "absent")

\* The records the remote pipeline moves a job through in this model.
SnapQueued == Mk("queued", "queued", "not_requested", "not_requested")
SnapAudioDone == Mk("completed", "completed", "completed", "not_requested")
SnapVideoRun == Mk("processing", "completed", "completed", "processing")
SnapDone == Mk("completed", "completed", "completed", "completed")
ServerSnaps == {SnapQueued, SnapAudioDone, SnapVideoRun, SnapDone}

\* A Job object as the API returns it: the id and the four status fields.
JobRec(j, snap) ==
  [id |-> j, status |-> snap.status, script_status |-> snap.script_status,
   audio_status |-> snap.audio_status, video_status |-> snap.video_status]

\* useState(null) for selectedJob.
NullJob == JobRec(NoJob, AbsentSnap)

processingStates == {"processing", "rerendering"}
pendingStates == {"queued"}

shouldPoll_NoQueued(job) ==
  \/ job.status \in processingStates
  \/ job.script_status \in processingStates
  \/ job.audio_status \in processingStates
  \/ job.video_status \in processingStates

shouldPoll(job) ==
  \/ job.status \in processingStates
  \/ job.script_status \in processingStates
  \/ job.audio_status \in processingStates
  \/ job.video_status \in processingStates
  \/ job.script_status \in pendingStates
  \/ job.audio_status \in pendingStates
  \/ job.video_status \in pendingStates

StageOf(job, t) == IF t = "audio" THEN job.audio_status ELSE job.video_status

\* ---------------------------------------------------------------- state
VARIABLES
  server,         \* remote: job id -> its record (AbsentSnap: not created)
  events,         \* how many events of the environment have happened
  mounted,        \* the App component is mounted
  jobs,           \* App: useState([]) jobs
  selectedJobId,  \* App: useState(null) selectedJobId
  selectedJob,    \* App: useState(null) selectedJob
  feedback,       \* App: useState("") feedback
  showModal,      \* App: useState(false) showModal
  flags,          \* App: loading, savingEdit, refreshing, audioLoading, videoLoading
  intervals,      \* setInterval handles not yet cleared: job id -> count
  pollEffect,     \* the interval the current poll effect's cleanup clears
  net,            \* bag of fire-and-forget API requests in flight
  handlers,       \* the async handlers: where each one is suspended
  effect,         \* JobDetails: per type, the current effect instance
  stale,          \* per type, job id -> pending fetches of cleaned-up effects
  artUrl,         \* JobDetails: audioUrl / videoPreviewUrl
  urls,           \* every object URL created: type, job, times revoked
  probe,          \* a job snapshot and the polling decision computed for it
  env,            \* the build's configuration (import.meta.env)
  hist,           \* history: jobs this client created, whether a tick failed,
                  \* the last refresh's answer and what it applied
  form            \* EditModal: the snapshot the fields were seeded from, the
                  \* image prompts text (valid JSON or not), the error shown

appVars ==
  <<server, events, mounted, jobs, selectedJobId, selectedJob, feedback,
    showModal, flags, intervals, pollEffect, net, handlers, effect, stale,
    artUrl, urls, env, hist, form>>
vars == <<appVars, probe>>


\* ------------------------------------------------------------- requests
\* listJobs(): the existing jobs, most recent (highest id) first.
ListItems(srv) ==
  LET all == [i \in 1..NumJobs |-> JobRec(NumJobs + 1 - i, srv[NumJobs + 1 - i])]
  IN SelectSeq(all, LAMBDA job : job.status # "absent")

\* A fire-and-forget request in flight, with the response the server built
\* for it: "sel" (selection effect's fetchJob), "poll" (a tick's fetchJob),
\* "list" (refreshJobs not awaited by a handler).
FetchReq(k, j) == [k |-> k, job |-> JobRec(j, server[j]), items |-> <<>>, reset |-> FALSE]
ListReq(reset) == [k |-> "list", job |-> NullJob, items |-> ListItems(server), reset |-> reset]

One(r) == SetToBag({r})

IdleHandler == [pc |-> "idle", id |-> NoJob, job |-> NullJob, items |-> <<>>]
HandlerNames == {"create", "save", "refresh", "audio", "video"}
Running == {h \in HandlerNames : handlers[h].pc # "idle"}

InFlight == BagCardinality(net) + Cardinality(Running)

RECURSIVE SumOver(_, _)
SumOver(f, S) ==
  IF S = {} THEN 0 ELSE LET x == CHOOSE y \in S : TRUE IN f[x] + SumOver(f, S \ {x})

ActiveIntervals == SumOver(intervals, Jobs)
StaleCount(t) == SumOver(stale[t], Jobs)

\* One more event of the environment. Opening the modal is not counted: it
\* issues nothing and can happen once until the modal is closed again.
Event == events < MaxEvents /\ events' = events + 1

\* ---------------------------------------------------------- poll effect
\* A cleanup that clears nothing.
PollCleanup_Leak(iv, pe) == iv

\* App.jsx:76  return () => clearInterval(interval)
PollCleanup(iv, pe) ==
  IF pe # NoJob THEN [iv EXCEPT ![pe] = @ - 1] ELSE iv

\* App.jsx:52-75: the interval the effect creates for a snapshot (NoJob: none).
PollTarget_KeepsStable(job) ==
  IF job.id = NoJob THEN NoJob ELSE job.id

PollTarget(job) ==
  IF job.id = NoJob THEN NoJob
  ELSE IF ~shouldPoll(job) THEN NoJob
  ELSE job.id

\* The effect re-runs on every new selectedJob object: cleanup, then body.
PollEffectIntervals(job) ==
  LET cleared == PollCleanup(intervals, pollEffect)
      target == PollTarget(job)
  IN IF target # NoJob THEN [cleared EXCEPT ![target] = @ + 1] ELSE cleared

\* ------------------------------------------------------ artifact effects
Dep(job, t) == <<job.id, StageOf(job, t)>>
InitialEffect == [dep |-> Dep(NullJob, "audio"), pending |-> FALSE, objectUrl |-> NoUrl]

\* App.jsx:298-300 / 316-318: if (objectUrl) URL.revokeObjectURL(objectUrl)
Revoke_Never(us, u) == us

Revoke(us, u) ==
  IF u # NoUrl THEN [us EXCEPT ![u].revoked = @ + 1] ELSE us

\* Cleanups of the effects of the types in T, in turn.
RECURSIVE RevokeAll(_, _)
RevokeAll(us, T) ==
  IF T = {} THEN us
  ELSE LET t == CHOOSE x \in T : TRUE
       IN RevokeAll(Revoke(us, effect[t].objectUrl), T \ {t})

\* The types whose effect re-runs when JobDetails renders with `job`.
Rerun(job) == {t \in Types : Dep(job, t) # effect[t].dep}

\* A fetch still pending when its effect is cleaned up goes on, orphaned.
Orphaned(T) ==
  [t \in Types |->
    IF t \in T /\ effect[t].pending
    THEN [stale[t] EXCEPT ![effect[t].dep[1]] = @ + 1]
    ELSE stale[t]]

\* App.jsx:286-297 / 303-314: the effect body for `job`.
EffectBody(job, t) ==
  [dep |-> Dep(job, t), pending |-> StageOf(job, t) = "completed", objectUrl |-> NoUrl]

CanRender(job) ==
  \A t \in Rerun(job) : effect[t].pending => StaleCount(t) < MaxStale

\* ------------------------------------------------------------ EditModal
\* part_001:12-17: the fields as seeded from a snapshot; the image prompts
\* text is JSON.stringify(imagePrompts ?? {}), which JSON.parse accepts.
Seeded(job) == [seed |-> job.id, prompts |-> "valid", error |-> FALSE]

\* part_001:19-26: the seed effect (deps open, script, transcript,
\* imagePrompts) after a snapshot was applied. It runs only while the modal
\* is open; for a snapshot of the same job it runs or not, as the fetched
\* script, transcript and image_prompts differ from the previous ones or not.
Reseeded(job) ==
  IF ~showModal THEN {form}
  ELSE IF job.id # selectedJob.id THEN {Seeded(job)}
  ELSE {Seeded(job), form}

\* ------------------------------------------------------------- a commit
\* One React commit: selectedJobId becomes newId; when setJob, selectedJob
\* becomes the new object newJob; then the effects whose deps changed run.
\* baseNet is what is in flight besides the requests the effects issue.
Commit(newId, setJob, newJob, baseNet) ==
  IF ~mounted
  THEN /\ net' = baseNet
       /\ UNCHANGED <<selectedJobId, selectedJob, intervals, pollEffect, effect,
                      stale, artUrl, urls, form>>
  ELSE LET job == IF setJob THEN newJob ELSE selectedJob
           T == Rerun(job)
       IN /\ selectedJobId' = newId
          /\ selectedJob' = job
          \* App.jsx:40-49
          /\ net' = IF newId # selectedJobId /\ newId # NoJob
                    THEN baseNet (+) One(FetchReq("sel", newId))
                    ELSE baseNet
          \* App.jsx:52-77
          /\ intervals' = IF setJob THEN PollEffectIntervals(job) ELSE intervals
          /\ pollEffect' = IF setJob THEN PollTarget(job) ELSE pollEffect
          \* App.jsx:286-319
          /\ urls' = RevokeAll(urls, T)
          /\ stale' = Orphaned(T)
          /\ effect' = [t \in Types |-> IF t \in T THEN EffectBody(job, t) ELSE effect[t]]
          /\ artUrl' = [t \in Types |->
                          IF t \in T /\ StageOf(job, t) # "completed"
                          THEN NoUrl ELSE artUrl[t]]
          \* part_001:19-26
          /\ form' \in IF setJob THEN Reseeded(job) ELSE {form}

SetFeedback(msg) == feedback' = IF mounted THEN msg ELSE feedback

\* -------------------------------------------------------------- actions
\* JobList onSelect={setSelectedJobId}
Select(j) ==
  /\ mounted
  /\ \E i \in 1..Len(jobs) : jobs[i].id = j
  /\ j # selectedJobId
  /\ InFlight < MaxInflight
  /\ Commit(j, FALSE, selectedJob, net)
  /\ Event
  /\ UNCHANGED <<server, mounted, jobs, feedback, showModal, flags,
                 handlers, probe, env, hist>>

\* App.jsx:43-44  fetchJob(selectedJobId).then(setSelectedJob)
SelFetchOk(r) ==
  /\ r.k = "sel"
  /\ CanRender(r.job)
  /\ Commit(selectedJobId, TRUE, r.job, net (-) One(r))
  /\ UNCHANGED <<server, events, mounted, jobs, feedback, showModal, flags,
                 handlers, probe, env, hist>>

\* A catch that blanks the detail pane.
SelFetchFail_Blanks(r) ==
  /\ r.k = "sel"
  /\ Commit(selectedJobId, TRUE, NullJob, net (-) One(r))
  /\ SetFeedback("Failed to fetch job details.")
  /\ UNCHANGED <<server, events, mounted, jobs, showModal, flags, handlers,
                 probe, env, hist>>

\* App.jsx:45-48
SelFetchFail(r) ==
  /\ r.k = "sel"
  /\ net' = net (-) One(r)
  /\ SetFeedback("Failed to fetch job details.")
  /\ UNCHANGED <<server, events, mounted, jobs, selectedJobId, selectedJob,
                 showModal, flags, intervals, pollEffect, handlers, effect, stale,
                 artUrl, urls, probe, env, hist, form>>

\* App.jsx:66-67: the interval fires and calls fetchJob(selectedJob.id).
PollTick(j) ==
  /\ intervals[j] > 0
  /\ InFlight < MaxInflight
  /\ net' = net (+) One(FetchReq("poll", j))
  /\ Event
  /\ UNCHANGED <<server, mounted, jobs, selectedJobId, selectedJob,
                 feedback, showModal, flags, intervals, pollEffect, handlers,
                 effect, stale, artUrl, urls, probe, env, hist, form>>

\* App.jsx:68-71  setSelectedJob(data); refreshJobs(false)
PollOk(r) ==
  /\ r.k = "poll"
  /\ CanRender(r.job)
  /\ Commit(selectedJobId, TRUE, r.job, (net (-) One(r)) (+) One(ListReq(FALSE)))
  /\ UNCHANGED <<server, events, mounted, jobs, feedback, showModal, flags,
                 handlers, probe, env, hist>>

\* A catch that gives up: clears the timer and reports the failure.
PollFail_StopsLoop(r) ==
  /\ r.k = "poll"
  /\ net' = net (-) One(r)
  /\ hist' = [hist EXCEPT !.pollFailed = TRUE]
  /\ intervals' = IF mounted THEN [j \in Jobs |-> 0] ELSE intervals
  /\ pollEffect' = IF mounted THEN NoJob ELSE pollEffect
  /\ SetFeedback("Failed to fetch job details.")
  /\ UNCHANGED <<server, events, mounted, jobs, selectedJobId, selectedJob,
                 showModal, flags, handlers, effect, stale, artUrl, urls,
                 probe, env, form>>

\* App.jsx:72-74  .catch((error) => console.error("Polling failed", error))
PollFail(r) ==
  /\ r.k = "poll"
  /\ net' = net (-) One(r)
  /\ hist' = [hist EXCEPT !.pollFailed = TRUE]
  /\ UNCHANGED <<server, events, mounted, jobs, selectedJobId, selectedJob,
                 feedback, showModal, flags, intervals, pollEffect, handlers,
                 effect, stale, artUrl, urls, probe, env, form>>

\* App.jsx:79-90 refreshJobs: what a list response does to the state.
ApplyList(items, resetSelection, baseNet) ==
  /\ jobs' = IF mounted THEN items ELSE jobs
  /\ Commit(IF resetSelection /\ Len(items) > 0 THEN items[1].id ELSE selectedJobId,
            FALSE, selectedJob, baseNet)

ListOk(r) ==
  /\ r.k = "list"
  /\ ApplyList(r.items, r.reset, net (-) One(r))
  /\ UNCHANGED <<server, events, mounted, feedback, showModal, flags,
                 handlers, probe, env, hist>>

\* App.jsx:86-89
ListFail(r) ==
  /\ r.k = "list"
  /\ net' = net (-) One(r)
  /\ SetFeedback("Unable to load jobs from the API.")
  /\ UNCHANGED <<server, events, mounted, jobs, selectedJobId, selectedJob,
                 showModal, flags, intervals, pollEffect, handlers, effect, stale,
                 artUrl, urls, probe, env, hist, form>>

\* ------------------------------------------------------ action handlers
FlagOf(h) ==
  CASE h = "create" -> "loading"
    [] h = "save" -> "savingEdit"
    [] h = "refresh" -> "refreshing"
    [] h = "audio" -> "audioLoading"
    [] h = "video" -> "videoLoading"

SetFlag(h, v) == flags' = IF mounted THEN [flags EXCEPT ![FlagOf(h)] = v] ELSE flags

\* The message of each handler's catch block.
FailMsg(h) ==
  CASE h = "create" -> "Failed to create job. Check API logs."
    [] h = "save" -> "Failed to save edits."
    [] h = "refresh" -> "Failed to refresh job."
    [] h = "audio" -> "Failed to request audio. Check API logs."
    [] h = "video" -> "Failed to request video. Check API logs."

ListFailMsg == "Unable to load jobs from the API."

\* The message a handler sets after its awaited refreshJobs(false) returned
\* (refreshJobs swallows its own failure after setting ListFailMsg).
AfterListMsg(h, listFailed) ==
  CASE h = "audio" -> "Audio generation requested."
    [] h = "video" -> "Video generation requested."
    [] OTHER -> IF listFailed THEN ListFailMsg ELSE feedback

Suspend(h, pc, id, job, items) ==
  handlers' = [handlers EXCEPT ![h] = [pc |-> pc, id |-> id, job |-> job, items |-> items]]

Finish(h) == handlers' = [handlers EXCEPT ![h] = IdleHandler]

\* A handler's catch + finally: message, flag cleared.
Catch(h) ==
  /\ handlers[h].pc \notin {"idle", "list"}
  /\ SetFeedback(FailMsg(h))
  /\ SetFlag(h, FALSE)
  /\ Finish(h)
  /\ UNCHANGED <<server, events, mounted, jobs, selectedJobId, selectedJob,
                 showModal, intervals, pollEffect, net, effect, stale, artUrl,
                 urls, probe, env, hist, form>>

\* History: what the server answered to the refresh and what was applied;
\* again: an earlier refresh had received the same answer.
Refreshed(h, applied) ==
  IF h = "refresh" /\ mounted
  THEN [hist EXCEPT !.refresh = [srv |-> handlers[h].job, applied |-> applied,
                                 again |-> hist.refresh.srv = handlers[h].job]]
  ELSE hist

\* A handler whose result depends on what is displayed: a record that is
\* already displayed is applied with status failed.
FetchOk_Toggles(h) ==
  /\ handlers[h].pc = "fetch"
  /\ CanRender(handlers[h].job)
  /\ Commit(selectedJobId, TRUE,
            IF selectedJob = handlers[h].job
            THEN [handlers[h].job EXCEPT !.status = "failed"]
            ELSE handlers[h].job, net)
  /\ hist' = Refreshed(h, selectedJob')
  /\ Suspend(h, "list", handlers[h].id, NullJob, ListItems(server))
  /\ UNCHANGED <<server, events, mounted, jobs, feedback, showModal, flags, probe, env>>

\* const updated = await fetchJob(selectedJobId); setSelectedJob(updated);
\* await refreshJobs(false)   (App.jsx:116-118, 131-133, 147-149, 164-166)
FetchOk(h) ==
  /\ handlers[h].pc = "fetch"
  /\ CanRender(handlers[h].job)
  /\ Commit(selectedJobId, TRUE, handlers[h].job, net)
  /\ hist' = Refreshed(h, selectedJob')
  /\ Suspend(h, "list", handlers[h].id, NullJob, ListItems(server))
  /\ UNCHANGED <<server, events, mounted, jobs, feedback, showModal, flags, probe, env>>

\* refreshJobs(false) returned to the handler: rest of try, then finally.
ListDone(h, ok) ==
  /\ handlers[h].pc = "list"
  /\ h # "create"
  /\ IF ok THEN ApplyList(handlers[h].items, FALSE, net)
     ELSE UNCHANGED <<jobs, selectedJobId, selectedJob, intervals, pollEffect, net,
                      effect, stale, artUrl, urls, form>>
  /\ SetFeedback(AfterListMsg(h, ~ok))
  /\ SetFlag(h, FALSE)
  /\ Finish(h)
  /\ UNCHANGED <<server, events, mounted, showModal, probe, env, hist>>

\* App.jsx:284-285: true unless VITE_ENABLE_IMAGE_GENERATION is "false".
videoFeatureEnabled == env.VITE_ENABLE_IMAGE_GENERATION # "false"

\* audioDisabled without its audioLoading disjunct.
audioDisabled_NoLoading ==
  \/ selectedJob.script_status # "completed"
  \/ selectedJob.audio_status = "processing"

\* audioDisabled without its script_status disjunct.
audioDisabled_NoScript ==
  \/ selectedJob.audio_status = "processing"
  \/ flags.audioLoading

\* videoDisabled without its audio_status disjunct.
videoDisabled_NoAudio ==
  \/ ~videoFeatureEnabled
  \/ selectedJob.video_status = "processing"
  \/ flags.videoLoading

\* App.jsx:329-332
audioDisabled ==
  \/ selectedJob.script_status # "completed"
  \/ selectedJob.audio_status = "processing"
  \/ flags.audioLoading

\* App.jsx:333-337
videoDisabled ==
  \/ ~videoFeatureEnabled
  \/ selectedJob.audio_status # "completed"
  \/ selectedJob.video_status = "processing"
  \/ flags.videoLoading

\* The control that starts handler h is rendered and not disabled:
\* JobForm submit (disabled={loading}), EditModal save (disabled={saving}),
\* JobDetails refresh / audio / video buttons (App.jsx:349, 390, 401).
ControlEnabled(h) ==
  CASE h = "create" -> ~flags.loading
    [] h = "save" -> showModal /\ ~flags.savingEdit
    [] h = "refresh" -> selectedJob.id # NoJob /\ ~flags.refreshing
    [] h = "audio" -> selectedJob.id # NoJob /\ ~audioDisabled
    [] h = "video" -> selectedJob.id # NoJob /\ ~videoDisabled

StartCommon ==
  /\ mounted
  /\ InFlight < MaxInflight
  /\ Event
  /\ UNCHANGED <<server, mounted, jobs, selectedJobId, selectedJob,
                 feedback, showModal, intervals, pollEffect, net, effect, stale,
                 artUrl, urls, probe, env, hist, form>>

\* App.jsx:127-140; the button is rendered once a job is displayed and is
\* disabled while refreshing (App.jsx:349).
handleRefresh_Start ==
  /\ ControlEnabled("refresh")
  /\ selectedJobId # NoJob
  /\ StartCommon
  /\ SetFlag("refresh", TRUE)
  /\ Suspend("refresh", "fetch", selectedJobId,
             JobRec(selectedJobId, server[selectedJobId]), <<>>)

handleRefresh ==
  \/ handleRefresh_Start
  \/ FetchOk("refresh")
  \/ Catch("refresh")
  \/ \E ok \in BOOLEAN : ListDone("refresh", ok)

\* App.jsx:142-157 and 159-174: trigger request, then fetch, then list.
Trigger_Start(h) ==
  /\ ControlEnabled(h)
  /\ selectedJobId # NoJob
  /\ StartCommon
  /\ SetFlag(h, TRUE)
  /\ Suspend(h, "request", selectedJobId, NullJob, <<>>)

Trigger_RequestOk(h) ==
  /\ handlers[h].pc = "request"
  /\ Suspend(h, "fetch", handlers[h].id, JobRec(handlers[h].id, server[handlers[h].id]), <<>>)
  /\ UNCHANGED <<server, events, mounted, jobs, selectedJobId, selectedJob,
                 feedback, showModal, flags, intervals, pollEffect, net, effect,
                 stale, artUrl, urls, probe, env, hist, form>>

handleRequestAudio ==
  \/ Trigger_Start("audio")
  \/ Trigger_RequestOk("audio")
  \/ FetchOk("audio")
  \/ Catch("audio")
  \/ \E ok \in BOOLEAN : ListDone("audio", ok)

handleRequestVideo ==
  \/ Trigger_Start("video")
  \/ Trigger_RequestOk("video")
  \/ FetchOk("video")
  \/ Catch("video")
  \/ \E ok \in BOOLEAN : ListDone("video", ok)

\* JobDetails onEdit (App.jsx:203, 352) and EditModal onClose (App.jsx:218).
OpenModal ==
  /\ mounted
  /\ selectedJob.id # NoJob
  /\ ~showModal
  /\ showModal' = TRUE
  /\ form' = Seeded(selectedJob)
  /\ UNCHANGED <<server, events, mounted, jobs, selectedJobId, selectedJob,
                 feedback, flags, intervals, pollEffect, net, handlers, effect,
                 stale, artUrl, urls, probe, env, hist>>

CloseModal ==
  /\ mounted
  /\ showModal
  /\ showModal' = FALSE
  /\ Event
  /\ UNCHANGED <<server, mounted, jobs, selectedJobId, selectedJob,
                 feedback, flags, intervals, pollEffect, net, handlers, effect,
                 stale, artUrl, urls, probe, env, hist, form>>

\* part_001:97-101: the user edits the image prompts text.
setLocalPrompts(v) ==
  /\ mounted
  /\ showModal
  /\ v # form.prompts
  /\ form' = [form EXCEPT !.prompts = v]
  /\ Event
  /\ UNCHANGED <<server, mounted, jobs, selectedJobId, selectedJob,
                 feedback, showModal, flags, intervals, pollEffect, net, handlers,
                 effect, stale, artUrl, urls, probe, env, hist>>

\* part_001:32-43 handleSave: JSON.parse(localPrompts) throws, the catch sets
\* the error and onSave is not called.
handleSave_Invalid ==
  /\ mounted
  /\ ControlEnabled("save")
  /\ form.prompts = "malformed"
  /\ ~form.error
  /\ form' = [form EXCEPT !.error = TRUE]
  /\ UNCHANGED <<server, events, mounted, jobs, selectedJobId, selectedJob,
                 feedback, showModal, flags, intervals, pollEffect, net, handlers,
                 effect, stale, artUrl, urls, probe, env, hist>>

\* A handleSave that passes the text on without parsing it.
handleSaveEdits_Start_NoParse ==
  /\ ControlEnabled("save")
  /\ selectedJobId # NoJob
  /\ StartCommon
  /\ SetFlag("save", TRUE)
  /\ Suspend("save", "update", selectedJobId, NullJob, <<>>)

\* part_001:32-39 handleSave: the text parses and onSave(payload) is called,
\* which is handleSaveEdits (App.jsx:108-125). The Save button lives in the
\* open modal and is disabled while saving.
handleSaveEdits_Start ==
  /\ ControlEnabled("save")
  /\ form.prompts = "valid"
  /\ selectedJobId # NoJob
  /\ StartCommon
  /\ SetFlag("save", TRUE)
  /\ Suspend("save", "update", selectedJobId, NullJob, <<>>)

\* await updateJob(selectedJobId, payload) returned
handleSaveEdits_Updated ==
  /\ handlers["save"].pc = "update"
  /\ Suspend("save", "rerender", handlers["save"].id, NullJob, <<>>)
  /\ UNCHANGED <<server, events, mounted, jobs, selectedJobId, selectedJob,
                 feedback, showModal, flags, intervals, pollEffect, net, effect,
                 stale, artUrl, urls, probe, env, hist, form>>

SavedMsg == "Edits saved. Rerender triggered."

\* await rerenderJob(selectedJobId) returned: App.jsx:114-116
handleSaveEdits_Rerendered ==
  /\ handlers["save"].pc = "rerender"
  /\ SetFeedback(SavedMsg)
  /\ showModal' = IF mounted THEN FALSE ELSE showModal
  /\ Suspend("save", "fetch", handlers["save"].id,
             JobRec(handlers["save"].id, server[handlers["save"].id]), <<>>)
  /\ UNCHANGED <<server, events, mounted, jobs, selectedJobId, selectedJob,
                 flags, intervals, pollEffect, net, effect, stale, artUrl, urls,
                 probe, env, hist, form>>

handleSaveEdits ==
  \/ handleSaveEdits_Start
  \/ handleSaveEdits_Updated
  \/ handleSaveEdits_Rerendered
  \/ FetchOk("save")
  \/ Catch("save")
  \/ \E ok \in BOOLEAN : ListDone("save", ok)

\* The id the server gives the next job it creates.
FreeIds == {j \in Jobs : server[j] = AbsentSnap}
NextId == CHOOSE j \in FreeIds : \A i \in FreeIds : j <= i

\* App.jsx:92-106; the form's submit is disabled while loading (JobForm).
\* The server creates the job (queued) when it accepts the request.
handleCreateJob_Start ==
  /\ mounted
  /\ ControlEnabled("create")
  /\ FreeIds # {}
  /\ InFlight < MaxInflight
  /\ \E accepted \in BOOLEAN :
       /\ server' = IF accepted THEN [server EXCEPT ![NextId] = SnapQueued] ELSE server
       /\ Suspend("create", "create", NoJob,
                  IF accepted THEN JobRec(NextId, SnapQueued) ELSE NullJob, <<>>)
  /\ SetFlag("create", TRUE)
  /\ Event
  /\ UNCHANGED <<mounted, jobs, selectedJobId, selectedJob, feedback,
                 showModal, intervals, pollEffect, net, effect, stale, artUrl,
                 urls, probe, env, hist, form>>

\* App.jsx:95-97
handleCreateJob_Created ==
  /\ handlers["create"].pc = "create"
  /\ handlers["create"].job.id # NoJob
  /\ SetFeedback("Job created. Script generation started.")
  /\ Suspend("create", "list", NoJob, handlers["create"].job, ListItems(server))
  /\ UNCHANGED <<server, events, mounted, jobs, selectedJobId, selectedJob,
                 showModal, flags, intervals, pollEffect, net, effect, stale,
                 artUrl, urls, probe, env, hist, form>>

\* App.jsx:97-99, 104: refreshJobs(false) returned, then
\* setSelectedJobId(job.id); setSelectedJob(job); setLoading(false)
handleCreateJob_Listed(ok) ==
  /\ handlers["create"].pc = "list"
  /\ CanRender(handlers["create"].job)
  /\ jobs' = IF mounted /\ ok THEN handlers["create"].items ELSE jobs
  /\ feedback' = IF mounted /\ ~ok THEN ListFailMsg ELSE feedback
  /\ Commit(handlers["create"].job.id, TRUE, handlers["create"].job, net)
  /\ SetFlag("create", FALSE)
  /\ Finish("create")
  /\ hist' = [hist EXCEPT !.created = @ \cup {handlers["create"].job.id}]
  /\ UNCHANGED <<server, events, mounted, showModal, probe, env>>

handleCreateJob ==
  \/ handleCreateJob_Start
  \/ handleCreateJob_Created
  \/ Catch("create")
  \/ \E ok \in BOOLEAN : handleCreateJob_Listed(ok)

\* ---------------------------------------------------- artifact fetches
\* part_000:61-63  URL.createObjectURL(blob): a fresh URL for (type, job).
NewUrl == Len(urls) + 1
Created(t, j) == Append(urls, [type |-> t, job |-> j, revoked |-> 0])

SetArtUrl(t, u) == artUrl' = IF mounted THEN [artUrl EXCEPT ![t] = u] ELSE artUrl

\* App.jsx:290-293 / 307-310: the current effect's fetch resolved.
ArtifactResolved(t) ==
  /\ effect[t].pending
  /\ Len(urls) < MaxUrls
  /\ urls' = Created(t, effect[t].dep[1])
  /\ effect' = [effect EXCEPT ![t].pending = FALSE, ![t].objectUrl = NewUrl]
  /\ SetArtUrl(t, NewUrl)
  /\ UNCHANGED <<server, events, mounted, jobs, selectedJobId, selectedJob,
                 feedback, showModal, flags, intervals, pollEffect, net, handlers,
                 stale, probe, env, hist, form>>

\* App.jsx:437 / 456: the player is rendered, otherwise the placeholder
\* ("... not available yet." / "... failed.").
PreviewShown(t) ==
  IF t = "audio"
  THEN selectedJob.audio_status = "completed" /\ artUrl["audio"] # NoUrl
  ELSE artUrl["video"] # NoUrl

\* A catch that leaves the previous handle in place.
ArtifactRejected_KeepsHandle(t) ==
  /\ effect[t].pending
  /\ effect' = [effect EXCEPT ![t].pending = FALSE]
  /\ UNCHANGED <<server, events, mounted, jobs, selectedJobId, selectedJob,
                 feedback, showModal, flags, intervals, pollEffect, net, handlers,
                 stale, artUrl, urls, probe, env, hist, form>>

\* App.jsx:294 / 311  .catch(() => setAudioUrl(null))
ArtifactRejected(t) ==
  /\ effect[t].pending
  /\ effect' = [effect EXCEPT ![t].pending = FALSE]
  /\ SetArtUrl(t, NoUrl)
  /\ UNCHANGED <<server, events, mounted, jobs, selectedJobId, selectedJob,
                 feedback, showModal, flags, intervals, pollEffect, net, handlers,
                 stale, urls, probe, env, hist, form>>

\* The same callbacks, run for an effect whose cleanup has already run: the
\* URL lands in a closure variable nothing reads again, and in the state.
OrphanResolved(t, j) ==
  /\ stale[t][j] > 0
  /\ Len(urls) < MaxUrls
  /\ urls' = Created(t, j)
  /\ stale' = [stale EXCEPT ![t][j] = @ - 1]
  /\ SetArtUrl(t, NewUrl)
  /\ UNCHANGED <<server, events, mounted, jobs, selectedJobId, selectedJob,
                 feedback, showModal, flags, intervals, pollEffect, net, handlers,
                 effect, probe, env, hist, form>>

OrphanRejected(t, j) ==
  /\ stale[t][j] > 0
  /\ stale' = [stale EXCEPT ![t][j] = @ - 1]
  /\ SetArtUrl(t, NoUrl)
  /\ UNCHANGED <<server, events, mounted, jobs, selectedJobId, selectedJob,
                 feedback, showModal, flags, intervals, pollEffect, net, handlers,
                 effect, urls, probe, env, hist, form>>

\* The App is unmounted: every effect's cleanup runs once.
Unmount ==
  /\ mounted
  /\ \A t \in Types : effect[t].pending => StaleCount(t) < MaxStale
  /\ mounted' = FALSE
  /\ intervals' = PollCleanup(intervals, pollEffect)
  /\ pollEffect' = NoJob
  /\ urls' = RevokeAll(urls, Types)
  /\ stale' = Orphaned(Types)
  /\ effect' = [t \in Types |-> [effect[t] EXCEPT !.pending = FALSE, !.objectUrl = NoUrl]]
  /\ Event
  /\ UNCHANGED <<server, jobs, selectedJobId, selectedJob, feedback,
                 showModal, flags, net, handlers, artUrl, probe, env, hist, form>>

\* ------------------------------------------------------------ the remote
\* The pipeline moves a job to another record on its own.
ServerStep(j, snap) ==
  /\ server[j] # AbsentSnap
  /\ snap # server[j]
  /\ server' = [server EXCEPT ![j] = snap]
  /\ Event
  /\ UNCHANGED <<mounted, jobs, selectedJobId, selectedJob, feedback, showModal,
                 flags, intervals, pollEffect, net, handlers, effect, stale,
                 artUrl, urls, probe, env, hist, form>>

\* ------------------------------------------------------- specification
InitServers ==
  {srv \in [Jobs -> ServerSnaps \cup {AbsentSnap}] :
     \A j \in Jobs : srv[j] # AbsentSnap => \A i \in 1..j : srv[i] # AbsentSnap}

IdleProbe == [snap |-> SnapQueued, evaluated |-> FALSE, result |-> FALSE]

\* The state after the first render: the mount effect has called
\* refreshJobs() (App.jsx:36-38) and its listJobs request is in flight.
AppInit(srv) ==
  /\ server = srv
  /\ events = 0
  /\ mounted = TRUE
  /\ jobs = <<>>
  /\ selectedJobId = NoJob
  /\ selectedJob = NullJob
  /\ feedback = ""
  /\ showModal = FALSE
  /\ flags = [loading |-> FALSE, savingEdit |-> FALSE, refreshing |-> FALSE,
              audioLoading |-> FALSE, videoLoading |-> FALSE]
  /\ intervals = [j \in Jobs |-> 0]
  /\ pollEffect = NoJob
  /\ net = One([k |-> "list", job |-> NullJob, items |-> ListItems(srv), reset |-> TRUE])
  /\ handlers = [h \in HandlerNames |-> IdleHandler]
  /\ effect = [t \in Types |-> InitialEffect]
  /\ stale = [t \in Types |-> [j \in Jobs |-> 0]]
  /\ artUrl = [t \in Types |-> NoUrl]
  /\ urls = <<>>
  /\ env \in [VITE_ENABLE_IMAGE_GENERATION : {"true", "false"}]
  /\ form = Seeded(NullJob)
  /\ hist = [created |-> {}, pollFailed |-> FALSE,
             refresh |-> [srv |-> NullJob, applied |-> NullJob, again |-> FALSE]]

Init ==
  /\ \E srv \in InitServers : AppInit(srv)
  /\ probe = IdleProbe

Deliver ==
  \E r \in BagToSet(net) :
    \/ SelFetchOk(r)
    \/ SelFetchFail(r)
    \/ PollOk(r)
    \/ PollFail(r)
    \/ ListOk(r)
    \/ ListFail(r)

Artifacts ==
  \E t \in Types :
    \/ ArtifactResolved(t)
    \/ ArtifactRejected(t)
    \/ \E j \in Jobs : OrphanResolved(t, j)
    \/ \E j \in Jobs : OrphanRejected(t, j)

Next ==
  \/ \E j \in Jobs : Select(j)
  \/ \E j \in Jobs : PollTick(j)
  \/ Deliver
  \/ handleCreateJob
  \/ handleSaveEdits
  \/ handleRefresh
  \/ handleRequestAudio
  \/ handleRequestVideo
  \/ OpenModal
  \/ CloseModal
  \/ \E v \in {"valid", "malformed"} : setLocalPrompts(v)
  \/ handleSave_Invalid
  \/ Artifacts
  \/ Unmount
  \/ \E j \in Jobs, snap \in ServerSnaps : ServerStep(j, snap)

Spec == Init /\ [][Next]_vars

\* --------------------------------------- the polling decision on its own
\* Every job snapshot, and the shouldPoll the poll effect computes for it.
PollInit ==
  /\ AppInit([j \in Jobs |-> AbsentSnap])
  /\ \E snap \in AllSnaps : probe = [snap |-> snap, evaluated |-> FALSE, result |-> FALSE]

EvalShouldPoll ==
  /\ ~probe.evaluated
  /\ probe' = [probe EXCEPT !.evaluated = TRUE, !.result = shouldPoll(JobRec(1, probe.snap))]
  /\ UNCHANGED appVars

PollNext == EvalShouldPoll

SpecPoll == PollInit /\ [][PollNext]_vars

\* ---------------------------------------------------------------- claims
HandlerFetches == {"save", "refresh", "audio", "video"}
TrackedFields(job) == {job.status, job.script_status, job.audio_status, job.video_status}
StageFields(job) == {job.script_status, job.audio_status, job.video_status}
LiveUrls(t) == {u \in 1..Len(urls) : urls[u].type = t /\ urls[u].revoked = 0}

\* C1: the response of a selection fetch is written into selectedJob only
\* if it is for the job that is selected when it arrives; a response for a
\* job selected earlier is never applied after the selection moved on.
C1_StaleSelectionFetchDiscarded ==
  [][\A r \in BagToSet(net) :
       (mounted /\ r.k = "sel" /\ SelFetchOk(r)) => selectedJob'.id = selectedJobId']_vars

\* C2: the response of a detail fetch issued by a poll tick, by manual
\* refresh or by the resync step of saveEdits / requestAudio / requestVideo
\* is written into selectedJob only if it is for the selected job.
C2_TaggedFetchDiscarded ==
  [][/\ \A r \in BagToSet(net) :
          (mounted /\ r.k = "poll" /\ PollOk(r)) => r.job.id = selectedJobId
     /\ \A h \in HandlerFetches :
          (mounted /\ FetchOk(h)) => handlers[h].job.id = selectedJobId]_vars

\* C3 as stated: shouldPoll is true iff status is processing or rerendering,
\* or one of the three stage statuses is processing or queued.
C3_ShouldPollAsStated ==
  probe.evaluated =>
    (probe.result <=>
       \/ probe.snap.status \in {"processing", "rerendering"}
       \/ StageFields(probe.snap) \cap {"processing", "queued"} # {})

\* C3 amended: shouldPoll is true iff one of the four status fields is
\* processing or rerendering, or one of the three stage statuses is queued.
C3_ShouldPollAmended ==
  probe.evaluated =>
    (probe.result <=>
       \/ TrackedFields(probe.snap) \cap {"processing", "rerendering"} # {}
       \/ "queued" \in StageFields(probe.snap))

\* A snapshot the two readings differ on has been evaluated: only a stage
\* status is rerendering, and the decision is to poll.
C3_Witness ==
  /\ probe.evaluated
  /\ probe.result
  /\ probe.snap = Mk("completed", "rerendering", "completed", "not_requested")

\* C4: a step that changes selectedJobId leaves no poll timer for a job
\* other than the newly selected one.
C4_TimerCancelledOnSelectionChange ==
  [][selectedJobId' # selectedJobId
       => \A j \in Jobs : j # selectedJobId' => intervals'[j] = 0]_vars

\* C5: a poll timer is active only while the App is mounted and the snapshot
\* in selectedJob needs polling (a status field processing / rerendering or
\* a stage field queued), and it is the timer of that snapshot's job.
C5_TimerOnlyWhilePollingNeeded ==
  \A j \in Jobs :
    intervals[j] > 0 =>
      /\ mounted
      /\ selectedJob.id = j
      /\ \/ TrackedFields(selectedJob) \cap {"processing", "rerendering"} # {}
         \/ "queued" \in StageFields(selectedJob)

\* A poll response carrying a stable snapshot has just been applied (its
\* list refresh is still in flight) and no timer is left.
C5_Witness ==
  /\ mounted
  /\ selectedJob.id # NoJob
  /\ ~shouldPoll(selectedJob)
  /\ ActiveIntervals = 0
  /\ \E r \in BagToSet(net) : r.k = "list" /\ ~r.reset

\* The audio handle the current audio effect resolved is the one on display.
AudioHeld(u) ==
  /\ mounted
  /\ u # NoUrl
  /\ effect["audio"].objectUrl = u
  /\ artUrl["audio"] = u
  /\ selectedJob.audio_status = "completed"

C7_SingleLiveHandle ==
  \A t \in Types : Cardinality(LiveUrls(t)) <= 1

\* C8: a URL held in audioUrl / videoPreviewUrl is unrevoked and was fetched
\* for the displayed job, whose stage status is completed.
C8_ExposedHandleCurrent ==
  \A t \in Types :
    (mounted /\ artUrl[t] # NoUrl) =>
      /\ urls[artUrl[t]].revoked = 0
      /\ urls[artUrl[t]].job = selectedJob.id
      /\ StageOf(selectedJob, t) = "completed"

\* C9: when the rerender trigger fails after the edits were persisted, the
\* message set differs from the message of full success and from the
\* message of a failed persistence.
C9_PartialSuccessDistinct ==
  [][(mounted /\ handlers["save"].pc = "rerender" /\ Catch("save"))
       => feedback' \notin {SavedMsg, FailMsg("save")}]_vars

\* C10: savingEdit is cleared only after the handler issued its detail fetch.
C10_ReconcileBeforeFlagCleared ==
  [][(flags.savingEdit /\ ~flags'.savingEdit)
       => handlers["save"].pc \in {"fetch", "list"}]_vars

\* C11: while the App is mounted, each handler's flag is true exactly while
\* an invocation of it is suspended at an await, and while one is, the
\* control that starts it is disabled.
C11_NonReentrant ==
  mounted =>
    \A h \in HandlerNames :
      /\ flags[FlagOf(h)] <=> (handlers[h].pc # "idle")
      /\ handlers[h].pc # "idle" => ~ControlEnabled(h)

\* An audio request is in flight for the displayed job, whose snapshot alone
\* would leave the audio control enabled.
C11_Witness ==
  /\ mounted
  /\ handlers["audio"].pc = "request"
  /\ flags.audioLoading
  /\ selectedJob.script_status = "completed"
  /\ selectedJob.audio_status # "processing"

\* C12: applying a list response leaves a set selectedJobId unchanged, and
\* sets an empty one to the first item of a non-empty list.
C12_ListKeepsSelection ==
  [][\A r \in BagToSet(net) :
       (mounted /\ ListOk(r)) =>
         IF selectedJobId # NoJob
         THEN selectedJobId' = selectedJobId
         ELSE Len(r.items) > 0 => selectedJobId' = r.items[1].id]_vars

\* C13: an entry of the jobs list with the id of the displayed job has the
\* same status, script_status, audio_status and video_status as selectedJob.
C13_ListAndDetailAgree ==
  (mounted /\ selectedJob.id # NoJob) =>
    \A i \in 1..Len(jobs) : jobs[i].id = selectedJob.id => jobs[i] = selectedJob

\* C14: the step that completes a successful create selects the new job,
\* seeds selectedJob with the creation response, and issues no GET of that
\* job.
C14_CreateSeedsWithoutFetch ==
  [][(mounted /\ \E ok \in BOOLEAN : handleCreateJob_Listed(ok)) =>
       /\ selectedJobId' = handlers["create"].job.id
       /\ selectedJob' = handlers["create"].job
       /\ \A r \in BagToSet(net') :
            (r.k = "sel" /\ r.job.id = handlers["create"].job.id)
              => CopiesIn(r, net') = CopiesIn(r, net)]_vars

C16_VideoControlGuard ==
  (mounted /\ selectedJob.id # NoJob) =>
    (ControlEnabled("video") <=>
       /\ env.VITE_ENABLE_IMAGE_GENERATION # "false"
       /\ selectedJob.audio_status = "completed"
       /\ selectedJob.video_status # "processing"
       /\ handlers["video"].pc = "idle")

\* The displayed job's audio is completed, its video is not being processed,
\* and the video control is enabled.
C16_Witness ==
  /\ mounted
  /\ selectedJob.id # NoJob
  /\ selectedJob.audio_status = "completed"
  /\ selectedJob.video_status = "not_requested"
  /\ ControlEnabled("video")

\* C17: an audio or video trigger request is sent for the job whose
\* snapshot its guard was evaluated on: the id in the request is the id of
\* the displayed snapshot.
C17_GuardedJobIsTargeted ==
  [][\A h \in {"audio", "video"} :
       Trigger_Start(h) => handlers'[h].id = selectedJob.id]_vars

\* C18: the step that completes a successful create (list refreshed) leaves
\* the created job in the jobs list, selected, with a poll timer for it; and
\* for a job this client created, the timer stays active across every step
\* that keeps the App mounted and the job selected and applies no snapshot
\* that needs no polling.
C18_PollingStartsAfterCreate ==
  /\ [][(mounted /\ handleCreateJob_Listed(TRUE)) =>
          /\ \E i \in 1..Len(jobs') : jobs'[i].id = handlers["create"].job.id
          /\ selectedJobId' = handlers["create"].job.id
          /\ intervals'[handlers["create"].job.id] > 0]_vars
  /\ [][\A j \in hist.created :
          (/\ mounted /\ mounted'
           /\ selectedJobId = j /\ selectedJobId' = j
           /\ intervals[j] > 0
           /\ shouldPoll(selectedJob'))
            => intervals'[j] > 0]_vars

\* C19: at most one interval is created and not yet cleared.
C19_AtMostOneTimer ==
  ActiveIntervals <= 1

\* A poll response that still needs polling has been applied (its list
\* refresh is in flight): the effect re-ran and exactly one timer exists.
C19_Witness ==
  /\ mounted
  /\ shouldPoll(selectedJob)
  /\ ActiveIntervals = 1
  /\ intervals[selectedJob.id] = 1
  /\ \E r \in BagToSet(net) : r.k = "list" /\ ~r.reset

\* C20: a step in which a poll tick's fetch fails (its request leaves the
\* requests in flight and nothing is issued in its place) leaves selectedJob,
\* jobs, feedback and the timers as they were.
C20_FailedTickKeepsPolling ==
  [][\A r \in BagToSet(net) :
       (r.k = "poll" /\ net' = net (-) One(r)) =>
         /\ selectedJob' = selectedJob
         /\ jobs' = jobs
         /\ feedback' = feedback
         /\ intervals' = intervals
         /\ pollEffect' = pollEffect]_vars

\* A tick's fetch has failed and the timer of the displayed job is still
\* active, with no tick outstanding.
C20_Witness ==
  /\ mounted
  /\ hist.pollFailed
  /\ selectedJob.id # NoJob
  /\ intervals[selectedJob.id] = 1
  /\ \A r \in BagToSet(net) : r.k # "poll"

\* C21: the step in which a selection fetch fails leaves jobs, selectedJob
\* and selectedJobId as they were and sets the feedback message.
C21_FailedSelectionFetchKeepsState ==
  [][\A r \in BagToSet(net) :
       (mounted /\ SelFetchFail(r)) =>
         /\ jobs' = jobs
         /\ selectedJob' = selectedJob
         /\ selectedJobId' = selectedJobId
         /\ feedback' = "Failed to fetch job details."]_vars

\* The failure message is shown while a job is still displayed and the list
\* is not empty.
C21_Witness ==
  /\ mounted
  /\ feedback = "Failed to fetch job details."
  /\ selectedJob.id # NoJob
  /\ selectedJobId # selectedJob.id
  /\ Len(jobs) > 0

\* C22: the step in which an artifact fetch rejects leaves the handle of
\* that type absent, creates no object URL, shows the placeholder of that
\* stage, and changes nothing else the user sees.
C22_RejectedArtifactLeavesHandleAbsent ==
  [][\A t \in Types :
       (mounted /\ (ArtifactRejected(t) \/ \E j \in Jobs : OrphanRejected(t, j))) =>
         /\ artUrl'[t] = NoUrl
         /\ urls' = urls
         /\ ~PreviewShown(t)'
         /\ UNCHANGED <<mounted, selectedJob, selectedJobId, feedback, flags>>]_vars

\* The audio effect ran for a completed stage, its fetch has settled without
\* a URL, and no handle is held.
C22_Witness ==
  /\ mounted
  /\ selectedJob.audio_status = "completed"
  /\ effect["audio"].dep = Dep(selectedJob, "audio")
  /\ ~effect["audio"].pending
  /\ effect["audio"].objectUrl = NoUrl
  /\ artUrl["audio"] = NoUrl
  /\ ~PreviewShown("audio")

\* C23: a click on Save with image prompts text that is not valid JSON sets
\* the inline error, leaves the modal open, starts no handler, sends nothing
\* and leaves every flag as it was; and handleSaveEdits is never started
\* with text that does not parse.
C23_MalformedPromptsStayLocal ==
  /\ [][handleSave_Invalid =>
          /\ form'.error
          /\ showModal'
          /\ handlers' = handlers
          /\ net' = net
          /\ flags' = flags
          /\ ~flags'.savingEdit]_vars
  /\ [][(handlers["save"].pc = "idle" /\ handlers'["save"].pc # "idle")
          => form.prompts = "valid"]_vars

\* The modal is open with malformed text and the error on display, and no
\* save is running.
C23_Witness ==
  /\ mounted
  /\ showModal
  /\ form.prompts = "malformed"
  /\ form.error
  /\ handlers["save"].pc = "idle"
  /\ ~flags.savingEdit

\* C24: a refresh that receives the same record of the job as the refresh
\* before it applies the same snapshot to selectedJob, and its remaining
\* steps leave selectedJob and selectedJobId alone and end with refreshing
\* false, as after the first one.
C24_RefreshIdempotent ==
  /\ [][(mounted /\ FetchOk("refresh") /\ hist.refresh.srv = handlers["refresh"].job)
          => /\ selectedJob' = hist.refresh.applied
             /\ selectedJobId' = selectedJobId]_vars
  /\ [][\A ok \in BOOLEAN :
          (mounted /\ ListDone("refresh", ok))
            => /\ selectedJob' = selectedJob
               /\ selectedJobId' = selectedJobId
               /\ ~flags'.refreshing]_vars

\* Two refreshes received the same record; the second has completed and the
\* snapshot both applied is displayed.
C24_Witness ==
  /\ mounted
  /\ hist.refresh.again
  /\ handlers["refresh"].pc = "idle"
  /\ ~flags.refreshing
  /\ selectedJob = hist.refresh.applied
  /\ selectedJob.id = selectedJobId

\* The client is at rest: no request for a job or the list in flight, no
\* handler running, no poll timer. Without a further event selectedJob does
\* not change any more (artifact fetches do not touch it).
AtRest ==
  /\ net = EmptyBag
  /\ Running = {}
  /\ ActiveIntervals = 0

\* C25: no step applies a snapshot of the selected job that leaves the
\* client at rest while that snapshot differs from the server's record of
\* the job (from such a state, with the selection and the server unchanged,
\* selectedJob never becomes equal to the server's record).
C25_NeverAtRestOnStaleSnapshot ==
  [][(/\ mounted
      /\ selectedJob' # selectedJob
      /\ AtRest'
      /\ selectedJobId' # NoJob
      /\ selectedJob'.id = selectedJobId')
       => selectedJob' = JobRec(selectedJobId', server'[selectedJobId'])]_vars

\* C26: when a job is displayed and no detail fetch is in flight (no
\* selection or poll fetch, no handler awaiting fetchJob), the displayed job
\* is the selected one.
C26_DetailMatchesSelection ==
  (/\ mounted
   /\ selectedJob.id # NoJob
   /\ \A r \in BagToSet(net) : r.k \notin {"sel", "poll"}
   /\ \A h \in HandlerNames : handlers[h].pc # "fetch")
    => selectedJob.id = selectedJobId

\* C27: the update request of a save is sent for the job whose snapshot
\* seeded the fields of the edit form.
C27_EditsSavedToTheirJob ==
  [][handleSaveEdits_Start => handlers'["save"].id = form.seed]_vars
====
